---- MODULE Spec2Model ----
(***************************************************************************)
(* Model of src/utils/image_generator.py: the module-level configuration   *)
(* (token check, client construction) and main(), the resumable batch      *)
(* loop that chains the reference image from row to row.                   *)
(*                                                                         *)
(* Strings the program trims are sequences of one-character strings, so    *)
(* that str.strip() is computed and not assumed.  File contents are        *)
(* opaque byte strings.                                                    *)
(***************************************************************************)
EXTENDS Integers, Sequences, FiniteSets, TLC

\* ------------------------------------------------------------------ bounds
\* longest manifest (number of data rows of prompts.csv)
MaxRows == 3
\* number of times the script is started, one after the other
MaxRuns == 2
\* longest value of REPLICATE_API_TOKEN
MaxTokenLen == 2
\* most files in the tree optimize_images walks
MaxFiles == 3

\* ------------------------------------------------------------ value spaces
\* os.getenv of an unset variable: distinct from every string
None == <<"None">>
NoFile == "NoFile"
NoClient == [built |-> FALSE]
NoPath == <<"", <<>>>>
NoResult == [shape |-> "none"]

Whitespace == {" "}
TokenChars == {" ", "x"}

\* what os.getenv("REPLICATE_API_TOKEN") can return
Tokens == {None} \cup UNION {[1..n -> TokenChars] : n \in 0..MaxTokenLen}

\* the data rows a prompts.csv is made of: filename and prompt as written,
\* with the surrounding blanks the program trims
CsvRows ==
    { [filename |-> <<"a">>,      prompt |-> <<"p">>],
      [filename |-> <<"b", " ">>, prompt |-> <<" ", "q">>],
      [filename |-> <<"c">>,      prompt |-> <<"r", " ">>],
      [filename |-> <<" ", "a">>, prompt |-> <<"s">>] }

\* a manifest: at most MaxRows rows, no row written twice (two rows may
\* still name the same file once trimmed)
Manifests ==
    { m \in UNION {[1..n -> CsvRows] : n \in 0..MaxRows} :
        \A j, k \in DOMAIN m : j # k => m[j] # m[k] }

\* prompts.csv on disk: its rows, or a file that cannot be opened
Unreadable == [readable |-> FALSE, rows |-> <<>>]
CsvFile(m) == [readable |-> TRUE, rows |-> m]

\* image bytes the provider can deliver
ImageBytes == {"img1", "img2"}
\* bytes of files that were on disk before the first run
OldBytes == "old"
AnchorBytes == "anchor"
\* what write_bytes leaves when the process dies inside it: the file is
\* created and holds none or only a part of the image
PartialBytes == "partial"

\* what client.run returns or does: the three shapes run_flux handles, a
\* string that is no URL, any other object, or an exception; for a URL, how
\* requests.get / raise_for_status ends
ProviderResults ==
    [shape : {"bytes", "stream"}, data : ImageBytes]
    \cup [shape : {"url"}, fetch : {"ok", "status", "network"}, data : ImageBytes]
    \cup {[shape |-> "str"], [shape |-> "other"], [shape |-> "throws"]}

\* ------------------------------------------------------------- pure helpers
\* str.strip(): drop leading and trailing whitespace
RECURSIVE LStrip(_)
LStrip(s) ==
    IF s # <<>> /\ Head(s) \in Whitespace THEN LStrip(Tail(s)) ELSE s

RECURSIVE RStrip(_)
RStrip(s) ==
    IF s # <<>> /\ s[Len(s)] \in Whitespace
    THEN RStrip(SubSeq(s, 1, Len(s) - 1))
    ELSE s

Strip(s) == RStrip(LStrip(s))

\* Python truth of os.getenv's result: None and "" are false
Truthy(tok) == tok # None /\ tok # <<>>

\* SCRIPT_DIR / "anchor.png" and OUT_DIR / f"{fname}.png"
ANCHOR_PATH == <<".", <<"anchor", ".png">>>>
OUT_DIR == "generated"
OutPath(fname) == <<OUT_DIR, fname \o <<".png">>>>

AllPaths == {ANCHOR_PATH} \cup {OutPath(Strip(r.filename)) : r \in CsvRows}

\* Path.exists()
Exists(disk, p) == disk[p] # NoFile

\* line 67: ANCHOR_PATH.exists()
AnchorNotChecked(disk) == TRUE
AnchorExists(disk) == Exists(disk, ANCHOR_PATH)

\* line 79: out_path.exists(), the skip rule
OutputNeverOnDisk(disk, out_path) == FALSE
OutputAlwaysOnDisk(disk, out_path) == TRUE
OutputExists(disk, out_path) == Exists(disk, out_path)

\* replicate.Client(api_token=API_TOKEN)
Client(tok) == [built |-> TRUE, api_token |-> tok]

\* how the process ended: the exception and the source line that raised it
NoExit == [kind |-> "none", line |-> 0]
Raised(kind, line) == [kind |-> kind, line |-> line]

\* run_flux without line 59's raise_for_status: the body of an error
\* response is returned as if it were the image
RunFluxNoStatusCheck(r) ==
    CASE r.shape = "throws" -> [raised |-> Raised("ReplicateError", 46), gets |-> 0]
      [] r.shape = "bytes"  -> [raised |-> NoExit, bytes |-> r.data, gets |-> 0]
      [] r.shape = "url" ->
            CASE r.fetch = "network" -> [raised |-> Raised("ConnectionError", 59), gets |-> 1]
              [] OTHER               -> [raised |-> NoExit, bytes |-> r.data, gets |-> 1]
      [] r.shape = "stream" -> [raised |-> NoExit, bytes |-> r.data, gets |-> 0]
      [] OTHER              -> [raised |-> Raised("RuntimeError", 63), gets |-> 0]

\* run_flux trying requests.get a second time when the first attempt fails
RunFluxFetchesTwice(r) ==
    CASE r.shape = "throws" -> [raised |-> Raised("ReplicateError", 46), gets |-> 0]
      [] r.shape = "bytes"  -> [raised |-> NoExit, bytes |-> r.data, gets |-> 0]
      [] r.shape = "url" ->
            CASE r.fetch = "network" -> [raised |-> Raised("ConnectionError", 59), gets |-> 2]
              [] r.fetch = "status"  -> [raised |-> Raised("HTTPError", 59), gets |-> 2]
              [] OTHER               -> [raised |-> NoExit, bytes |-> r.data, gets |-> 1]
      [] r.shape = "stream" -> [raised |-> NoExit, bytes |-> r.data, gets |-> 0]
      [] OTHER              -> [raised |-> Raised("RuntimeError", 63), gets |-> 0]

\* run_flux returning the URL text itself instead of fetching it
RunFluxReturnsUrlText(r) ==
    CASE r.shape = "throws" -> [raised |-> Raised("ReplicateError", 46), gets |-> 0]
      [] r.shape = "bytes"  -> [raised |-> NoExit, bytes |-> r.data, gets |-> 0]
      [] r.shape = "url"    -> [raised |-> NoExit, bytes |-> "http", gets |-> 0]
      [] r.shape = "stream" -> [raised |-> NoExit, bytes |-> r.data, gets |-> 0]
      [] OTHER              -> [raised |-> Raised("RuntimeError", 63), gets |-> 0]

\* run_flux after client.run: the bytes it returns, or the exception that
\* leaves it, and the number of requests.get calls it made
RunFlux(r) ==
    CASE r.shape = "throws" -> [raised |-> Raised("ReplicateError", 46), gets |-> 0]
      [] r.shape = "bytes"  -> [raised |-> NoExit, bytes |-> r.data, gets |-> 0]
      [] r.shape = "url" ->
            CASE r.fetch = "network" -> [raised |-> Raised("ConnectionError", 59), gets |-> 1]
              [] r.fetch = "status"  -> [raised |-> Raised("HTTPError", 59), gets |-> 1]
              [] OTHER               -> [raised |-> NoExit, bytes |-> r.data, gets |-> 1]
      [] r.shape = "stream" -> [raised |-> NoExit, bytes |-> r.data, gets |-> 0]
      [] OTHER              -> [raised |-> Raised("RuntimeError", 63), gets |-> 0]

\* line 80: the pointer after a skipped row
SkipKeepsPointer(out_path, last) == last
SkipResetsToAnchor(out_path, last) == ANCHOR_PATH
SkipPointer(out_path, last) == out_path

\* line 85: the pointer after a generated row
ChainKeepsPointer(out_path, last) == last
ChainPointer(out_path, last) == out_path

\* lines 79-81 and 86: time.sleep(RATE_LIMIT_SEC) is not reached by a skipped
\* row (continue) and runs once after a generated row
PausesAfterGenerate == 1
PausesAfterSkipToo == PausesAfterGenerate
PausesAfterSkip == 0

\* ------------------------------------------- optimize_assets.py: helpers
\* str.lower() on the letters that matter to the suffix test
LowerChar(c) ==
    CASE c = "P" -> "p"
      [] c = "N" -> "n"
      [] c = "G" -> "g"
      [] OTHER   -> c

Lower(s) == [k \in 1..Len(s) |-> LowerChar(s[k])]

\* str.endswith
EndsWith(s, suffix) ==
    /\ Len(s) >= Len(suffix)
    /\ SubSeq(s, Len(s) - Len(suffix) + 1, Len(s)) = suffix

\* line 11: file.lower().endswith('.png')
IsPngCaseSensitive(file) == EndsWith(file, <<".", "p", "n", "g">>)
IsPng(file) == EndsWith(Lower(file), <<".", "p", "n", "g">>)

\* os.path.splitext(name)[0]: the name up to its last dot, unless that dot
\* is among the leading dots of the name
LastDot(s) ==
    IF \E k \in 1..Len(s) : s[k] = "."
    THEN CHOOSE k \in 1..Len(s) :
            s[k] = "." /\ \A j \in (k + 1)..Len(s) : s[j] # "."
    ELSE 0

LeadingDots(s) ==
    IF \A k \in 1..Len(s) : s[k] = "." THEN Len(s)
    ELSE (CHOOSE k \in 1..Len(s) :
            s[k] # "." /\ \A j \in 1..(k - 1) : s[j] = ".") - 1

SplitExtRoot(s) ==
    IF LastDot(s) > LeadingDots(s) THEN SubSeq(s, 1, LastDot(s) - 1) ELSE s

\* line 16: the sibling the conversion is saved to
WebpPath(p) == <<p[1], SplitExtRoot(p[2]) \o <<".", "w", "e", "b", "p">>>>

\* the files a walked tree can hold: directory and file name
TreeFiles ==
    { <<".", <<"a", ".", "p", "n", "g">>>>,
      <<".", <<"b", ".", "P", "N", "G">>>>,
      <<".", <<"c", ".", "j", "p", "g">>>>,
      <<".", <<"p", "n", "g">>>>,
      <<".", <<".", "p", "n", "g">>>>,
      <<".", <<"a", ".", "w", "e", "b", "p">>>>,
      <<"sub", <<"a", ".", "p", "n", "g">>>>,
      <<"sub", <<"a", ".", "P", "n", "g">>>> }

TreePaths == TreeFiles \cup {WebpPath(p) : p \in TreeFiles}

\* os.walk is top-down: root_dir before its subdirectory
DirRank(d) == IF d = "." THEN 0 ELSE 1

\* what a file holds: an image PIL can open, or bytes Image.open rejects;
\* and what img.save writes or leaves behind when it raises
SourceContents == {"image", "corrupt"}
WebpBytes == "webp"
PartialWebp == "partial-webp"

\* ------------------------------------------------------------------- state
VARIABLES
    fs,             \* the disk: path -> bytes, or NoFile
    outDir,         \* OUT_DIR exists
    csv,            \* prompts.csv: CsvFile(rows), or Unreadable
    pc,             \* position of the running process
    API_TOKEN,      \* module global
    client,         \* module global
    rows,           \* main(): the manifest as read
    i,              \* main(): index of the row the loop is at
    last_img_path,  \* main(): the chaining pointer
    result,         \* run_flux(): what client.run did in the latest call
    gets,           \* run_flux(): requests.get calls made in the latest call
    exit,           \* how the process ended
    runs,           \* history: processes started so far
    aborted,        \* history: earlier runs ended by a provider failure
    startFs,        \* history: the disk when this process started
    calls,          \* history: provider calls of this run, in order
    handled,        \* history: rows handled by this run, in order
    sleeps,         \* history: time.sleep(RATE_LIMIT_SEC) calls of this run
    newest,         \* history: the output file written last, over all runs
    tree,           \* optimize_images: the walked directory tree, path -> content
    todo,           \* optimize_images: files os.walk has still to yield
    opt_pc,         \* optimize_images: position of the converter
    tree0,          \* history: the tree when the walk started
    attempted,      \* history: files Image.open was called on
    failed          \* history: files whose conversion raised

vars == <<fs, outDir, csv, pc, API_TOKEN, client, rows, i, last_img_path,
          result, gets, exit, runs, aborted, startFs, calls, handled, sleeps, newest,
          tree, todo, opt_pc, tree0, attempted, failed>>

env == <<fs, outDir, csv>>
opt == <<tree, todo, opt_pc, tree0, attempted, failed>>
hist == <<runs, aborted, startFs, newest>>

OutPaths(m) == {OutPath(Strip(m[k].filename)) : k \in DOMAIN m}

ProviderFailures == {"ReplicateError", "ConnectionError", "HTTPError", "RuntimeError"}

\* a fresh process: nothing loaded yet
Fresh ==
    /\ pc = "import"
    /\ API_TOKEN = None
    /\ client = NoClient
    /\ rows = <<>>
    /\ i = 0
    /\ last_img_path = NoPath
    /\ result = NoResult
    /\ gets = 0
    /\ exit = NoExit
    /\ calls = <<>>
    /\ handled = <<>>
    /\ sleeps = 0

\* The disk before the first run: the anchor may be missing, prompts.csv may
\* be missing, and any of the manifest's output files may already be there.
Init ==
    /\ csv \in {CsvFile(m) : m \in Manifests} \cup {Unreadable}
    /\ fs \in [AllPaths -> {NoFile, OldBytes, AnchorBytes}]
    /\ fs[ANCHOR_PATH] \in {NoFile, AnchorBytes}
    /\ \A p \in AllPaths \ {ANCHOR_PATH} :
          /\ fs[p] \in {NoFile, OldBytes}
          /\ fs[p] # NoFile => p \in OutPaths(csv.rows)
    /\ outDir \in BOOLEAN
    /\ (\E p \in AllPaths \ {ANCHOR_PATH} : fs[p] # NoFile) => outDir
    /\ Fresh
    /\ runs = 1
    /\ aborted = 0
    /\ startFs = fs
    /\ newest = NoPath
    /\ tree = [p \in TreePaths |-> NoFile]
    /\ todo = {}
    /\ opt_pc = "idle"
    /\ tree0 = tree
    /\ attempted = <<>>
    /\ failed = {}

\* ----------------------------------------------------------------- actions
Exit(kind, line) ==
    /\ pc' = "exit"
    /\ exit' = Raised(kind, line)

\* lines 19-26: load_dotenv and os.getenv
GetEnv ==
    /\ pc = "import"
    /\ \E t \in Tokens : API_TOKEN' = t
    /\ pc' = "token"
    /\ UNCHANGED <<env, hist, client, rows, i, last_img_path, result, gets, exit,
                   calls, handled, sleeps>>
    /\ UNCHANGED opt

\* lines 28-40: the token check, the strip, the client
Configure ==
    /\ pc = "token"
    /\ IF ~Truthy(API_TOKEN)
       THEN /\ Exit("SystemExit", 29)
            /\ UNCHANGED <<API_TOKEN, client>>
       ELSE /\ API_TOKEN' = Strip(API_TOKEN)
            /\ client' = Client(Strip(API_TOKEN))
            /\ pc' = "main"
            /\ UNCHANGED exit
    /\ UNCHANGED <<env, hist, rows, i, last_img_path, result, gets, calls, handled, sleeps>>
    /\ UNCHANGED opt

\* lines 67-68: the anchor is missing
MainNoAnchor ==
    /\ pc = "main"
    /\ ~AnchorExists(fs)
    /\ Exit("SystemExit", 68)
    /\ UNCHANGED <<env, hist, API_TOKEN, client, rows, i, last_img_path,
                   result, gets, calls, handled, sleeps>>
    /\ UNCHANGED opt

\* lines 67-71: prompts.csv cannot be opened
MainUnreadable ==
    /\ pc = "main"
    /\ AnchorExists(fs)
    /\ outDir' = TRUE
    /\ ~csv.readable
    /\ Exit("FileNotFoundError", 71)
    /\ UNCHANGED <<fs, csv, hist, API_TOKEN, client, rows, i, last_img_path,
                   result, gets, calls, handled, sleeps>>
    /\ UNCHANGED opt

\* lines 67-73: prompts.csv has no data row
MainEmpty ==
    /\ pc = "main"
    /\ AnchorExists(fs)
    /\ outDir' = TRUE
    /\ csv.readable
    /\ rows' = csv.rows
    /\ csv.rows = <<>>
    /\ Exit("SystemExit", 73)
    /\ UNCHANGED <<fs, csv, hist, API_TOKEN, client, i, last_img_path,
                   result, gets, calls, handled, sleeps>>
    /\ UNCHANGED opt

\* lines 67-76: the loop is entered
MainBegin ==
    /\ pc = "main"
    /\ AnchorExists(fs)
    /\ outDir' = TRUE
    /\ csv.readable
    /\ rows' = csv.rows
    /\ csv.rows # <<>>
    /\ last_img_path' = ANCHOR_PATH
    /\ i' = 1
    /\ pc' = "loop"
    /\ UNCHANGED <<fs, csv, hist, API_TOKEN, client, result, gets, exit, calls,
                   handled, sleeps>>
    /\ UNCHANGED opt

\* lines 45-53: what run_flux sends for row k, and the state of the disk it
\* sends it in
Call(k, prompt) ==
    [row |-> k, prompt |-> prompt, ref |-> last_img_path,
     refData |-> fs[last_img_path], newest |-> newest]

\* lines 77-81: the row's output is on disk
SkipRow ==
    /\ pc = "loop"
    /\ i <= Len(rows)
    /\ LET fname == Strip(rows[i].filename)
           out_path == OutPath(fname)
       IN /\ OutputExists(fs, out_path)
          /\ last_img_path' = SkipPointer(out_path, last_img_path)
          /\ handled' = Append(handled,
                [op |-> "skip", out |-> out_path, data |-> fs[out_path],
                 before |-> last_img_path,
                 after |-> SkipPointer(out_path, last_img_path)])
    /\ i' = i + 1
    /\ sleeps' = sleeps + PausesAfterSkip
    /\ UNCHANGED <<env, hist, pc, API_TOKEN, client, rows, result, gets, exit, calls>>
    /\ UNCHANGED opt

\* lines 77-86: the row's output is missing: run_flux, write, chain, sleep
GenerateRow ==
    /\ pc = "loop"
    /\ i <= Len(rows)
    /\ LET fname == Strip(rows[i].filename)
           prompt == Strip(rows[i].prompt)
           out_path == OutPath(fname)
       IN /\ ~OutputExists(fs, out_path)
          /\ IF ~Exists(fs, last_img_path)
             THEN \* line 45: img_path.open("rb") raises, client.run is not reached
                  /\ Exit("FileNotFoundError", 45)
                  /\ UNCHANGED <<fs, newest, i, last_img_path, result, gets, calls,
                                 handled, sleeps>>
             ELSE \E r \in ProviderResults :
                  /\ result' = r
                  /\ gets' = RunFlux(r).gets
                  /\ calls' = Append(calls, Call(i, prompt))
                  /\ IF RunFlux(r).raised # NoExit
                     THEN /\ pc' = "exit"
                          /\ exit' = RunFlux(r).raised
                          /\ UNCHANGED <<fs, newest, i, last_img_path, handled,
                                         sleeps>>
                     ELSE /\ fs' = [fs EXCEPT ![out_path] = RunFlux(r).bytes]
                          /\ newest' = out_path
                          /\ last_img_path' = ChainPointer(out_path, last_img_path)
                          /\ handled' = Append(handled,
                                [op |-> "gen", out |-> out_path,
                                 data |-> RunFlux(r).bytes,
                                 before |-> last_img_path,
                                 after |-> ChainPointer(out_path, last_img_path)])
                          /\ i' = i + 1
                          /\ sleeps' = sleeps + PausesAfterGenerate
                          /\ UNCHANGED <<pc, exit>>
    /\ UNCHANGED <<outDir, csv, runs, aborted, startFs, API_TOKEN, client, rows>>
    /\ UNCHANGED opt

\* lines 77-84: the process is killed inside out_path.write_bytes, after
\* run_flux has returned the image
KillDuringWrite ==
    /\ pc = "loop"
    /\ i <= Len(rows)
    /\ LET fname == Strip(rows[i].filename)
           prompt == Strip(rows[i].prompt)
           out_path == OutPath(fname)
       IN /\ ~OutputExists(fs, out_path)
          /\ Exists(fs, last_img_path)
          /\ \E r \in ProviderResults :
                /\ RunFlux(r).raised = NoExit
                /\ result' = r
                /\ gets' = RunFlux(r).gets
                /\ calls' = Append(calls, Call(i, prompt))
          /\ fs' = [fs EXCEPT ![out_path] = PartialBytes]
          /\ newest' = out_path
    /\ Exit("Killed", 84)
    /\ UNCHANGED <<outDir, csv, runs, aborted, startFs, API_TOKEN, client, rows,
                   i, last_img_path, handled, sleeps>>
    /\ UNCHANGED opt

\* line 88: the loop is over
Finish ==
    /\ pc = "loop"
    /\ i > Len(rows)
    /\ pc' = "done"
    /\ UNCHANGED <<env, hist, API_TOKEN, client, rows, i, last_img_path,
                   result, gets, exit, calls, handled, sleeps>>
    /\ UNCHANGED opt

\* the operator starts the script again (the docstring's "safe to resume")
Rerun ==
    /\ pc \in {"done", "exit"}
    /\ runs < MaxRuns
    /\ runs' = runs + 1
    /\ aborted' = IF exit.kind \in ProviderFailures THEN aborted + 1 ELSE aborted
    /\ startFs' = fs
    /\ pc' = "import"
    /\ API_TOKEN' = None
    /\ client' = NoClient
    /\ rows' = <<>>
    /\ i' = 0
    /\ last_img_path' = NoPath
    /\ result' = NoResult
    /\ gets' = 0
    /\ exit' = NoExit
    /\ calls' = <<>>
    /\ handled' = <<>>
    /\ sleeps' = 0
    /\ UNCHANGED <<env, newest>>
    /\ UNCHANGED opt

Next ==
    \/ GetEnv
    \/ Configure
    \/ MainNoAnchor
    \/ MainUnreadable
    \/ MainEmpty
    \/ MainBegin
    \/ SkipRow
    \/ GenerateRow
    \/ KillDuringWrite
    \/ Finish
    \/ Rerun

Spec == Init /\ [][Next]_vars

\* ------------------------------------------- optimize_assets.py: the walk
gen == <<fs, outDir, csv, pc, API_TOKEN, client, rows, i, last_img_path,
         result, gets, exit, runs, aborted, startFs, calls, handled, sleeps,
         newest>>

\* optimize_images(root_dir) is called on a tree of at most MaxFiles files;
\* the generator is not running
OptInit ==
    /\ csv = Unreadable
    /\ fs = [p \in AllPaths |-> NoFile]
    /\ outDir = FALSE
    /\ Fresh
    /\ runs = 1
    /\ aborted = 0
    /\ startFs = fs
    /\ newest = NoPath
    /\ \E S \in SUBSET TreeFiles :
          /\ Cardinality(S) <= MaxFiles
          /\ \E c \in [S -> SourceContents] :
                tree = [p \in TreePaths |-> IF p \in S THEN c[p] ELSE NoFile]
          /\ todo = S
    /\ opt_pc = "walk"
    /\ tree0 = tree
    /\ attempted = <<>>
    /\ failed = {}

\* the files os.walk can yield next
NextInWalk == {p \in todo : \A q \in todo : DirRank(p[1]) <= DirRank(q[1])}

\* lines 10-11: a file whose name does not end in .png is passed over
OptVisitOther ==
    /\ opt_pc = "walk"
    /\ \E p \in NextInWalk :
          /\ ~IsPng(p[2])
          /\ todo' = todo \ {p}
    /\ UNCHANGED <<gen, tree, opt_pc, tree0, attempted, failed>>

\* lines 12-20: the file is opened and saved as WebP beside it
OptConvert ==
    /\ opt_pc = "walk"
    /\ \E p \in NextInWalk :
          /\ IsPng(p[2])
          /\ tree[p] = "image"
          /\ tree' = [tree EXCEPT ![WebpPath(p)] = WebpBytes]
          /\ attempted' = Append(attempted, p)
          /\ todo' = todo \ {p}
    /\ UNCHANGED <<gen, opt_pc, tree0, failed>>

\* lines 12-23: Image.open or img.save raises; the exception is printed and
\* the walk goes on.  A failed save leaves the target as it was or cut short.
OptConvertFails ==
    /\ opt_pc = "walk"
    /\ \E p \in NextInWalk :
          /\ IsPng(p[2])
          /\ IF tree[p] # "image"
             THEN UNCHANGED tree
             ELSE \E left \in {tree[WebpPath(p)], PartialWebp} :
                    tree' = [tree EXCEPT ![WebpPath(p)] = left]
          /\ attempted' = Append(attempted, p)
          /\ failed' = failed \cup {p}
          /\ todo' = todo \ {p}
    /\ UNCHANGED <<gen, opt_pc, tree0>>

\* lines 9 and 28: the walk is exhausted
OptFinish ==
    /\ opt_pc = "walk"
    /\ todo = {}
    /\ opt_pc' = "done"
    /\ UNCHANGED <<gen, tree, todo, tree0, attempted, failed>>

OptNext ==
    \/ OptVisitOther
    \/ OptConvert
    \/ OptConvertFails
    \/ OptFinish

OptSpec == OptInit /\ [][OptNext]_vars

\* ------------------------------------------------------------------ claims
\* the output path of row k of the manifest this run read
RowOut(k) == OutPath(Strip(rows[k].filename))

OutputFiles == AllPaths \ {ANCHOR_PATH}

\* every output file that was on disk when the process started is unchanged
StartFilesIntact == \A p \in OutputFiles : Exists(startFs, p) => fs[p] = startFs[p]

\* every file this run wrote or found still holds the bytes it held then
HandledFilesIntact == \A h \in DOMAIN handled : fs[handled[h].out] = handled[h].data

\* C1: when the output file of every manifest row is on disk as the run
\* starts, the run makes no provider call and every output file that was
\* there keeps its bytes.
C1_AllPresentNoCalls ==
    (csv.readable /\ \A p \in OutPaths(csv.rows) : Exists(startFs, p)) =>
        /\ calls = <<>>
        /\ result = NoResult
        /\ StartFilesIntact

\* a complete run over two or more rows, all of them found on disk
C1_Witness ==
    /\ pc = "done"
    /\ Len(rows) >= 2
    /\ Len(handled) = Len(rows)
    /\ \A p \in OutPaths(rows) : Exists(startFs, p)

\* the provider step fails: client.run throws, the result is none of bytes,
\* URL or stream, or the fetch of the URL fails
ProviderStepFailed(r) ==
    \/ r.shape \in {"throws", "str", "other"}
    \/ (r.shape = "url" /\ r.fetch # "ok")

\* C2: when the provider step of row k fails the run ends at row k: row k's
\* output file is not written, no later row is called for, and the files of
\* the rows before k are on disk with the bytes written or found.
C2_AbortsAtFailingRow ==
    ProviderStepFailed(result) =>
        LET k == calls[Len(calls)].row IN
        /\ pc = "exit"
        /\ exit.kind \in ProviderFailures
        /\ i = k
        /\ Len(handled) = k - 1
        /\ ~Exists(fs, RowOut(k))
        /\ \A c \in DOMAIN calls : calls[c].row <= k
        /\ HandledFilesIntact
        /\ StartFilesIntact

\* the third row's provider step failed after two rows were generated
C2_Witness ==
    /\ ProviderStepFailed(result)
    /\ Len(calls) = 3
    /\ handled[1].op = "gen" /\ handled[2].op = "gen"

\* C3: a run that ends without a failure, whatever runs were aborted before
\* it, leaves the output file of every manifest row on disk, and has called
\* the provider only for rows whose file was missing when it started.  Until
\* it ends the loop can take its next step, and each step that does not fail
\* handles one more row.
C3_ResumeCompletesMissing ==
    /\ pc = "loop" =>
          /\ i \in 1..(Len(rows) + 1)
          /\ Len(handled) = i - 1
          /\ ENABLED (SkipRow \/ GenerateRow \/ Finish)
    /\ pc = "done" =>
          /\ \A p \in OutPaths(csv.rows) : Exists(fs, p)
          /\ \A c \in DOMAIN calls : ~Exists(startFs, RowOut(calls[c].row))
          /\ \A k \in DOMAIN rows :
                ~Exists(startFs, RowOut(k)) =>
                    \E c \in DOMAIN calls : RowOut(calls[c].row) = RowOut(k)

\* a run aborted by a provider failure, then a run that skips what the first
\* wrote and generates the rest
C3_Witness ==
    /\ pc = "done"
    /\ aborted >= 1
    /\ \E h \in DOMAIN handled : handled[h].op = "skip"
    /\ calls # <<>>

C6_AnchorSentEveryCall ==
    \A c \in DOMAIN calls : calls[c].ref = ANCHOR_PATH

C8_MissingAnchorFailsFirst ==
    ~Exists(startFs, ANCHOR_PATH) =>
        /\ pc \in {"import", "token", "main", "exit"}
        /\ pc = "exit" => exit \in {Raised("SystemExit", 29), Raised("SystemExit", 68)}
        /\ rows = <<>>
        /\ i = 0
        /\ handled = <<>>
        /\ calls = <<>>
        /\ result = NoResult
        /\ fs = startFs

\* main() was entered with a client built and left at line 68, with output
\* files missing that a run would have generated
C8_Witness ==
    /\ ~Exists(startFs, ANCHOR_PATH)
    /\ client.built
    /\ exit = Raised("SystemExit", 68)
    /\ Len(csv.rows) >= 2
    /\ \E p \in OutPaths(csv.rows) : ~Exists(fs, p)

\* C9: when the manifest is empty or cannot be read, the run ends with a
\* configuration error (SystemExit) before any provider call and before any
\* file is created in the output directory.
C9_BadManifestIsConfigError ==
    (pc \in {"loop", "done", "exit"} /\ (~csv.readable \/ csv.rows = <<>>)) =>
        /\ pc = "exit"
        /\ exit.kind = "SystemExit"
        /\ calls = <<>>
        /\ fs = startFs

\* absent, empty or whitespace only
IsBlank(tok) == tok = None \/ Strip(tok) = <<>>

\* C10: a blank credential ends the program with a configuration error
\* (SystemExit) before the client is built, and a client is only ever built
\* with a token that is not blank.
C10_BlankTokenRejected ==
    /\ [][(pc = "token" /\ IsBlank(API_TOKEN)) =>
            (pc' = "exit" /\ exit'.kind = "SystemExit" /\ ~client'.built)]_vars
    /\ [](client.built => ~IsBlank(client.api_token))

\* the rows of this run that were generated
Generated == {h \in DOMAIN handled : handled[h].op = "gen"}

\* C11: the pause runs once after each generated row and never after a
\* skipped row; a run that ends normally has paused as often as it has called
\* the provider.
C11_OnePausePerGeneratedRow ==
    /\ sleeps = Cardinality(Generated)
    /\ pc = "done" => sleeps = Len(calls)

\* a complete run that skipped a row and generated two, the last row among
\* them
C11_Witness ==
    /\ pc = "done"
    /\ sleeps = 2
    /\ Len(handled) = 3
    /\ handled[3].op = "gen"

\* C12: a partial file left by a killed write is not taken for a finished
\* row by a later run: no row is skipped on a partial file, and no provider
\* call sends a partial file as its reference image.
C12_PartialFileIsIncomplete ==
    /\ \A h \in DOMAIN handled :
          handled[h].op = "skip" => handled[h].data # PartialBytes
    /\ \A c \in DOMAIN calls : calls[c].refData # PartialBytes

\* the latest provider call delivered an image and its row was written
LastCallWritten ==
    /\ calls # <<>>
    /\ handled # <<>>
    /\ calls[Len(calls)].row = Len(handled)
    /\ handled[Len(handled)].op = "gen"

\* C13: the bytes written for a row are the image bytes the provider
\* delivered, whether they came inline, as a stream or behind a URL that was
\* fetched; so a URL and inline bytes carrying the same image give run_flux
\* the same return value and the output path the same contents.
C13_UrlAndInlineSameBytes ==
    /\ \A d \in ImageBytes :
          /\ RunFlux([shape |-> "url", fetch |-> "ok", data |-> d]).raised = NoExit
          /\ RunFlux([shape |-> "url", fetch |-> "ok", data |-> d]).bytes
                = RunFlux([shape |-> "bytes", data |-> d]).bytes
    /\ (LastCallWritten /\ (i = Len(handled) + 1) /\ pc \in {"loop", "done"}) =>
          /\ handled[Len(handled)].data = result.data
          /\ fs[handled[Len(handled)].out] = result.data

\* a row written from a fetched URL
C13_Witness ==
    /\ LastCallWritten
    /\ result.shape = "url"
    /\ fs[handled[Len(handled)].out] \in ImageBytes
    /\ pc = "done"

\* the fetch of the URL the provider returned failed
FetchFailed(r) == r.shape = "url" /\ r.fetch # "ok"

\* C14: nothing is tried twice: within a run no row is sent to the provider
\* more than once, a call makes at most one requests.get, and a failed fetch
\* ends the run with the error after that one attempt.
C14_NoRetry ==
    /\ \A c, d \in DOMAIN calls : calls[c].row = calls[d].row => c = d
    /\ gets <= 1
    /\ gets = 1 => result.shape = "url"
    /\ FetchFailed(result) =>
          /\ gets = 1
          /\ pc = "exit"
          /\ exit.kind \in {"HTTPError", "ConnectionError"}
          /\ i = calls[Len(calls)].row
          /\ ~Exists(fs, RowOut(i))

\* the fetch for the third row failed after two rows were generated
C14_Witness ==
    /\ FetchFailed(result)
    /\ result.fetch = "status"
    /\ Len(calls) = 3
    /\ sleeps = 2

\* C15: a file that is on disk is never written: no step changes the bytes
\* of a path that holds a file, a write goes to a path that held none when
\* the skip rule looked, and so every output file found at the start of a
\* run, complete or aborted, keeps its bytes.
C15_NoOverwrite ==
    /\ [][\A p \in AllPaths : Exists(fs, p) => fs'[p] = fs[p]]_vars
    /\ [](StartFilesIntact /\ HandledFilesIntact)

\* an aborted run that wrote one file between files it found
C15_Witness ==
    /\ pc = "exit"
    /\ exit.kind \in ProviderFailures
    /\ Len(handled) = 2
    /\ handled[1].op = "gen"
    /\ handled[2].op = "skip"
    /\ handled[2].data = OldBytes

\* C17: within a run no two provider calls are for the same output path and
\* no output path is written twice; a row whose trimmed filename repeats that
\* of an earlier row is skipped and its prompt is never sent.
C17_OncePerOutputPath ==
    /\ \A c, d \in DOMAIN calls :
          RowOut(calls[c].row) = RowOut(calls[d].row) => c = d
    /\ \A g, h \in Generated : handled[g].out = handled[h].out => g = h
    /\ \A k, j \in DOMAIN handled :
          (k < j /\ RowOut(k) = RowOut(j)) =>
              /\ handled[j].op = "skip"
              /\ \A c \in DOMAIN calls :
                    /\ calls[c].row # j
                    /\ calls[c].prompt # Strip(rows[j].prompt)

\* two rows that trim to the same filename: the first was generated, the
\* second handled after it
C17_Witness ==
    \E k, j \in DOMAIN handled :
        /\ k < j
        /\ rows[k].filename # rows[j].filename
        /\ RowOut(k) = RowOut(j)
        /\ handled[k].op = "gen"

\* C18: the reference image of every provider call was on disk when the
\* call was made, and it is the anchor or the output file of the row just
\* before; run_flux never fails to open it.
C18_ReferenceExistsAtCall ==
    /\ \A c \in DOMAIN calls :
          /\ calls[c].refData # NoFile
          /\ calls[c].ref \in
                {ANCHOR_PATH} \cup {RowOut(k) : k \in {calls[c].row - 1} \ {0}}
    /\ exit # Raised("FileNotFoundError", 45)
    /\ (pc = "loop" /\ i <= Len(rows)) => Exists(fs, last_img_path)

\* calls conditioned on the anchor, on a file found on disk and on a file
\* just written
C18_Witness ==
    /\ Len(calls) = 2
    /\ Len(handled) = 3
    /\ calls[1].ref = ANCHOR_PATH
    /\ handled[2].op = "skip"
    /\ calls[2].refData = OldBytes

\* a name whose last four characters are ".png" in any mix of cases
EndsInPngAnyCase(n) ==
    /\ Len(n) >= 4
    /\ n[Len(n) - 3] = "."
    /\ n[Len(n) - 2] \in {"p", "P"}
    /\ n[Len(n) - 1] \in {"n", "N"}
    /\ n[Len(n)] \in {"g", "G"}

\* the .png files of the tree as the walk found it
PngSources == {p \in TreeFiles : tree0[p] # NoFile /\ EndsInPngAnyCase(p[2])}

Range(f) == {f[k] : k \in DOMAIN f}

\* C16: the converter attempts every file of the tree whose name ends in
\* .png in any case, once, and only those; a conversion that fails does not
\* stop the walk; and no source .png file is changed or removed.
C16_EveryPngAttempted ==
    /\ \A p \in PngSources : tree[p] = tree0[p]
    /\ Range(attempted) \subseteq PngSources
    /\ Range(attempted) \cap todo = {}
    /\ \A j, k \in DOMAIN attempted : attempted[j] = attempted[k] => j = k
    /\ failed \subseteq Range(attempted)
    /\ opt_pc = "walk" => PngSources \subseteq (Range(attempted) \cup todo)
    /\ opt_pc = "done" => Range(attempted) = PngSources

\* a finished walk in which a conversion failed and a later one, of a file
\* with an upper-case extension, went through
C16_Witness ==
    /\ opt_pc = "done"
    /\ \E j, k \in DOMAIN attempted :
          /\ j < k
          /\ attempted[j] \in failed
          /\ attempted[k] \notin failed
          /\ ~IsPngCaseSensitive(attempted[k][2])
          /\ tree[WebpPath(attempted[k])] = WebpBytes

====
